---------------------------- MODULE Spec2Model ----------------------------
(***************************************************************************)
(* Tkinter Breakout (src/main.py): the Game frame, its canvas, the Paddle, *)
(* the Ball and the Bricks, driven by key events and Tk "after" timers.    *)
(*                                                                         *)
(* Coordinates.  The source is Python 2 (import Tkinter): "/" on ints is   *)
(* floor division, so Brick.width / 2 is 37 and a brick created at         *)
(* x + 37.5 spans x + 0.5 .. x + 74.5.  To keep these halves exact every   *)
(* coordinate of the model is in HALF PIXELS: Px(n) is n pixels.           *)
(*                                                                         *)
(* Playfield.  main.py:10-11 set a 610 x 400 playfield, with the paddle at *)
(* y = 326 and the served ball at y = 310.  The model keeps every object   *)
(* size, step and offset of the source on a narrower and lower playfield   *)
(* (GameWidth, GameHeight below): two brick columns instead of eight, and  *)
(* the paddle line and the serve line at their distances to the floor      *)
(* (400 - 326, 326 - 310).  GameWidth is congruent to 610 modulo 20, so    *)
(* the paddle meets the side walls exactly as in the source (left edge 5,  *)
(* right edge width - 5), and the ball meets the ceiling at top edge 0.    *)
(* At width 110 the four serves always clear the bricks before the fourth  *)
(* miss, so Game Over needs width 130.                                     *)
(***************************************************************************)
EXTENDS Integers, Sequences, FiniteSets, TLC

VARIABLES
    lives,      \* Game.lives
    hud,        \* Game.hud: canvas id of the lives text (None before setup)
    text,       \* Game.text: canvas id of the "Press Spacebar" prompt
    space,      \* TRUE iff '<space>' is bound to start_game
    after,      \* pending Tk timers: how many of each callback
    canvas,     \* the Tk canvas: item id -> item (only items not deleted)
    nextId,     \* the id the canvas gives to the next created item
    items,      \* Game.items: the keys of the dict (values are the objects)
    ball,       \* Game.ball: [item, direction, speed]
    carried,    \* Paddle.ball: item id of the carried ball, or None
    hits,       \* Brick.hits of every Brick object ever created
    error,      \* TRUE once a callback has raised an exception
    collided    \* history: the list the latest tick passed to Ball.collide

vars == <<lives, hud, text, space, after, canvas, nextId, items, ball,
          carried, hits, error, collided>>

-----------------------------------------------------------------------------
(* The playfield of the model, in pixels *)

GameWidth == 130

GameHeight == 210

(* Program constants, in pixels *)

StartLives == 3

ColumnStep == 75

ColumnMargin == 5

BallRadius == 10

BallSpeed == 10

BallServeGap == 16

PaddleFloorGap == 74

PaddleWidth == 80

PaddleHeight == 10

PaddleStep == 10

BrickWidth == 75

BrickHeight == 20

TickDelay == 50

ServeDelay == 1000

None == 0

Px(n) == 2 * n

\* Python 2 int / int
IntDiv(a, b) == a \div b

PaddleYStart == GameHeight - PaddleFloorGap

BallYStart == PaddleYStart - BallServeGap

\* the three add_brick calls of one column: <<y, hits>>
BrickRows == << <<50, 2>>, <<70, 1>>, <<90, 1>> >>

\* range(5, self.width - 5, 75)
RECURSIVE range(_, _, _)
range(lo, hi, step) ==
    IF lo >= hi THEN <<>> ELSE <<lo>> \o range(lo + step, hi, step)

BrickColumns == range(ColumnMargin, GameWidth - ColumnMargin, ColumnStep)

\* Brick.COLORS
COLORS == [h \in {1, 2, 3} |-> CASE h = 1 -> "#999999"
                                 [] h = 2 -> "#555555"
                                 [] h = 3 -> "#222222"]

PaddleItem == 1

-----------------------------------------------------------------------------
(* The state as one record, so that a handler is a function on states *)

Cur == [lives |-> lives, hud |-> hud, text |-> text, space |-> space,
        after |-> after, canvas |-> canvas, nextId |-> nextId,
        items |-> items, ball |-> ball, carried |-> carried,
        hits |-> hits, error |-> error]

Becomes(s) ==
    /\ lives' = s.lives
    /\ hud' = s.hud
    /\ text' = s.text
    /\ space' = s.space
    /\ after' = s.after
    /\ canvas' = s.canvas
    /\ nextId' = s.nextId
    /\ items' = s.items
    /\ ball' = s.ball
    /\ carried' = s.carried
    /\ hits' = s.hits
    /\ error' = s.error

-----------------------------------------------------------------------------
(* The canvas (Tk), as far as the game uses it *)

Item(type, coords, tag, fill, txt) ==
    [type |-> type, coords |-> coords, tag |-> tag, fill |-> fill, text |-> txt]

\* canvas.create_*: the new item gets the next id
create(s, item) ==
    [s EXCEPT !.canvas = [i \in DOMAIN s.canvas \cup {s.nextId} |->
                              IF i = s.nextId THEN item ELSE s.canvas[i]],
              !.nextId = @ + 1]

\* canvas.delete(item): no-op when the item is gone
canvas_delete(s, i) ==
    [s EXCEPT !.canvas = [j \in DOMAIN s.canvas \ {i} |-> s.canvas[j]]]

\* canvas.coords(item): [] for a deleted item
canvas_coords(s, i) ==
    IF i \in DOMAIN s.canvas THEN s.canvas[i].coords ELSE <<>>

\* canvas.move(item, x, y), x and y already in half pixels
canvas_move(s, i, x, y) ==
    IF i \in DOMAIN s.canvas
    THEN LET c == s.canvas[i].coords
         IN [s EXCEPT !.canvas[i].coords =
                 <<c[1] + x, c[2] + y, c[3] + x, c[4] + y>>]
    ELSE s

\* canvas.find_withtag(tag)
find_withtag(s, tag) == {i \in DOMAIN s.canvas : s.canvas[i].tag = tag}

\* canvas.winfo_width(): the width the canvas was configured with (its
\* border and highlight ring are not modelled), once the window is mapped
winfo_width == Px(GameWidth)

\* The area an item covers.  A rectangle or oval is drawn with the default
\* outline of width 1, which reaches half a pixel beyond its coordinates; a
\* text item is centred on its anchor point.
TextExtent == <<Px(30), Px(9)>>

Area(it) ==
    IF it.type = "text"
    THEN <<it.coords[1] - TextExtent[1], it.coords[2] - TextExtent[2],
           it.coords[1] + TextExtent[1], it.coords[2] + TextExtent[2]>>
    ELSE <<it.coords[1] - 1, it.coords[2] - 1,
           it.coords[3] + 1, it.coords[4] + 1>>

\* canvas.find_overlapping(x0, y0, x1, y1): the items whose area is not
\* wholly outside the rectangle (touching borders do not overlap)
find_overlapping(s, box) ==
    {i \in DOMAIN s.canvas :
        LET a == Area(s.canvas[i])
        IN ~ (box[3] <= a[1] \/ box[1] >= a[3] \/
              box[4] <= a[2] \/ box[2] >= a[4])}


\* self.after(ms, callback): one more one-shot timer for the callback
tk_after(s, ms, callback) == [s EXCEPT !.after[callback] = @ + 1]

-----------------------------------------------------------------------------
(* GameObject *)

\* GameObject.get_position
get_position(s, i) == canvas_coords(s, i)

\* GameObject.move, x and y in pixels
GameObject_move(s, i, x, y) == canvas_move(s, i, Px(x), Px(y))

\* GameObject.delete
delete(s, i) == canvas_delete(s, i)

-----------------------------------------------------------------------------
(* Game: construction and serve *)

\* Game.draw_text returns the id of the new text item: s.nextId before
draw_text(s, x, y, txt) ==
    create(s, Item("text", <<Px(x), Px(y)>>, "", "", txt))

\* Paddle.__init__ (the paddle starts carrying nothing)
Paddle_init(s, x, y) ==
    create(s, Item("rectangle",
                   <<Px(x - IntDiv(PaddleWidth, 2)), Px(y - IntDiv(PaddleHeight, 2)),
                     Px(x + IntDiv(PaddleWidth, 2)), Px(y + IntDiv(PaddleHeight, 2))>>,
                   "", "blue", ""))

\* Brick.__init__; x2 is the centre in half pixels (the source passes x + 37.5)
Brick_init(s, x2, y, h) ==
    LET item == Item("rectangle",
                     <<x2 - Px(IntDiv(BrickWidth, 2)), Px(y - IntDiv(BrickHeight, 2)),
                       x2 + Px(IntDiv(BrickWidth, 2)), Px(y + IntDiv(BrickHeight, 2))>>,
                     "brick", COLORS[h], "")
        s1 == create(s, item)
    IN [s1 EXCEPT !.hits = [i \in DOMAIN s.hits \cup {s.nextId} |->
                                IF i = s.nextId THEN h ELSE s.hits[i]]]

\* Game.add_brick
add_brick(s, x2, y, h) ==
    LET s1 == Brick_init(s, x2, y, h)
    IN [s1 EXCEPT !.items = @ \cup {s.nextId}]

\* Ball.__init__
Ball_init(s, x2, y) ==
    LET s1 == create(s, Item("oval",
                             <<x2 - Px(BallRadius), Px(y - BallRadius),
                               x2 + Px(BallRadius), Px(y + BallRadius)>>,
                             "", "white", ""))
    IN [s1 EXCEPT !.ball = [item |-> s.nextId, direction |-> <<1, -1>>,
                            speed |-> BallSpeed]]

\* Paddle.set_ball
set_ball(s, b) == [s EXCEPT !.carried = b]

\* Game.add_ball that leaves the previous ball on the canvas
add_ball_keeps_old(s) ==
    LET paddle_coords == get_position(s, PaddleItem)
        x2 == IntDiv(paddle_coords[1] + paddle_coords[3], 2)
        s2 == Ball_init(s, x2, BallYStart)
    IN set_ball(s2, s2.ball.item)

\* Game.add_ball
add_ball(s) ==
    LET s1 == IF s.ball.item # None THEN delete(s, s.ball.item) ELSE s
        paddle_coords == get_position(s1, PaddleItem)
        x2 == IntDiv(paddle_coords[1] + paddle_coords[3], 2)
        s2 == Ball_init(s1, x2, BallYStart)
    IN set_ball(s2, s2.ball.item)

\* "Lives: {}".format(self.lives)
LivesText(n) == "Lives: " \o ToString(n)

\* Game.update_lives_text
update_lives_text(s) ==
    LET txt == LivesText(s.lives)
    IN IF s.hud = None
       THEN [draw_text(s, 50, 20, txt) EXCEPT !.hud = s.nextId]
       ELSE IF s.hud \in DOMAIN s.canvas
            THEN [s EXCEPT !.canvas[s.hud].text = txt]
            ELSE s

\* Game.setup_game that also lays a brick again
setup_game_recreates_brick(s) ==
    LET s0 == add_brick(s, Px(Head(BrickColumns)) + BrickWidth,
                        BrickRows[1][1], BrickRows[1][2])
        s1 == add_ball(s0)
        s2 == update_lives_text(s1)
        s3 == [draw_text(s2, 300, 200, "Press Spacebar to start")
                   EXCEPT !.text = s2.nextId]
    IN [s3 EXCEPT !.space = TRUE]

\* Game.setup_game
setup_game(s) ==
    LET s1 == add_ball(s)
        s2 == update_lives_text(s1)
        s3 == [draw_text(s2, 300, 200, "Press Spacebar to start")
                   EXCEPT !.text = s2.nextId]
    IN [s3 EXCEPT !.space = TRUE]

\* the brick layout loop of Game.__init__
RECURSIVE brick_layout(_, _)
brick_layout(s, cols) ==
    IF cols = <<>> THEN s
    ELSE LET x2 == Px(Head(cols)) + BrickWidth   \* x + 37.5
             s1 == add_brick(s, x2, BrickRows[1][1], BrickRows[1][2])
             s2 == add_brick(s1, x2, BrickRows[2][1], BrickRows[2][2])
             s3 == add_brick(s2, x2, BrickRows[3][1], BrickRows[3][2])
         IN brick_layout(s3, Tail(cols))

\* Game.__init__
Game_init ==
    LET s0 == [lives |-> StartLives, hud |-> None, text |-> None,
               space |-> FALSE,
               after |-> [game_loop |-> 0, setup_game |-> 0],
               canvas |-> <<>>, nextId |-> 1, items |-> {},
               ball |-> [item |-> None, direction |-> <<1, -1>>, speed |-> None],
               carried |-> None, hits |-> <<>>, error |-> FALSE]
        s1 == Paddle_init(s0, IntDiv(GameWidth, 2), PaddleYStart)
        s2 == [s1 EXCEPT !.items = @ \cup {PaddleItem}]
        s3 == brick_layout(s2, BrickColumns)
    IN setup_game(s3)

-----------------------------------------------------------------------------
(* Brick, Ball, Paddle *)

IsBrick(s, i) == i \in DOMAIN s.hits

\* Brick.hit that removes the brick one hit early
hit_removes_early(s, i) ==
    LET h == s.hits[i] - 1
        s1 == [s EXCEPT !.hits[i] = h]
    IN IF h <= 1 THEN delete(s1, i)
       ELSE IF h \notin DOMAIN COLORS THEN [s1 EXCEPT !.error = TRUE]
       ELSE IF i \in DOMAIN s1.canvas
            THEN [s1 EXCEPT !.canvas[i].fill = COLORS[h]]
            ELSE s1

\* Brick.hit that removes the brick only below 0
hit_removes_late(s, i) ==
    LET h == s.hits[i] - 1
        s1 == [s EXCEPT !.hits[i] = h]
    IN IF h < 0 THEN delete(s1, i)
       ELSE IF h \notin DOMAIN COLORS THEN s1
       ELSE IF i \in DOMAIN s1.canvas
            THEN [s1 EXCEPT !.canvas[i].fill = COLORS[h]]
            ELSE s1

\* Brick.hit; COLORS[self.hits] raises KeyError outside 1..3
hit(s, i) ==
    LET h == s.hits[i] - 1
        s1 == [s EXCEPT !.hits[i] = h]
    IN IF h = 0 THEN delete(s1, i)
       ELSE IF h \notin DOMAIN COLORS THEN [s1 EXCEPT !.error = TRUE]
       ELSE IF i \in DOMAIN s1.canvas
            THEN [s1 EXCEPT !.canvas[i].fill = COLORS[h]]
            ELSE s1

\* collide_direction with non-strict comparisons against the edges
collide_direction_nonstrict(s, game_objects) ==
    LET ball_coords == get_position(s, s.ball.item)
        ball_center_x == ball_coords[1] + ball_coords[3]
        d == s.ball.direction
    IN IF Len(game_objects) > 1
       THEN <<d[1], -d[2]>>
       ELSE IF Len(game_objects) = 1
            THEN LET coords == get_position(s, game_objects[1])
                 IN IF ball_center_x >= 2 * coords[3] THEN <<1, d[2]>>
                    ELSE IF ball_center_x <= 2 * coords[1] THEN <<-1, d[2]>>
                    ELSE <<d[1], -d[2]>>
            ELSE d

\* the direction part of Ball.collide (lines 270-283).  The centre of the
\* ball is (c[1] + c[3]) / 2; both sides of each comparison are doubled.
collide_direction(s, game_objects) ==
    LET ball_coords == get_position(s, s.ball.item)
        ball_center_x == ball_coords[1] + ball_coords[3]
        d == s.ball.direction
    IN IF Len(game_objects) > 1
       THEN <<d[1], -d[2]>>
       ELSE IF Len(game_objects) = 1
            THEN LET coords == get_position(s, game_objects[1])
                 IN IF ball_center_x > 2 * coords[3] THEN <<1, d[2]>>
                    ELSE IF ball_center_x < 2 * coords[1] THEN <<-1, d[2]>>
                    ELSE <<d[1], -d[2]>>
            ELSE d

\* the loop that ends Ball.collide (lines 285-287)
RECURSIVE collide_hits(_, _)
collide_hits(s, game_objects) ==
    IF game_objects = <<>> THEN s
    ELSE LET o == Head(game_objects)
             s1 == IF IsBrick(s, o) THEN hit(s, o) ELSE s
         IN collide_hits(s1, Tail(game_objects))

\* collide that is "done" after the flip for two or more objects
collide_multi_returns(s, game_objects) ==
    LET s1 == [s EXCEPT !.ball.direction = collide_direction(s, game_objects)]
    IN IF Len(game_objects) > 1 THEN s1 ELSE collide_hits(s1, game_objects)

\* Ball.collide
collide(s, game_objects) ==
    collide_hits([s EXCEPT !.ball.direction = collide_direction(s, game_objects)],
                 game_objects)

\* Ball.update that reflects at the right wall only
update_no_left_wall(s) ==
    LET ball_coords == get_position(s, s.ball.item)
        width == winfo_width
        d == s.ball.direction
        dx == IF ball_coords[3] >= width THEN -d[1] ELSE d[1]
        dy == IF ball_coords[2] <= 0 THEN -d[2] ELSE d[2]
        s1 == [s EXCEPT !.ball.direction = <<dx, dy>>]
    IN IF s.ball.speed = None
       THEN [s1 EXCEPT !.error = TRUE]
       ELSE GameObject_move(s1, s1.ball.item,
                            dx * s1.ball.speed, dy * s1.ball.speed)

\* Ball.update; direction * None raises TypeError after the wall checks
update(s) ==
    LET ball_coords == get_position(s, s.ball.item)
        width == winfo_width
        d == s.ball.direction
        dx == IF ball_coords[1] <= 0 \/ ball_coords[3] >= width
              THEN -d[1] ELSE d[1]
        dy == IF ball_coords[2] <= 0 THEN -d[2] ELSE d[2]
        s1 == [s EXCEPT !.ball.direction = <<dx, dy>>]
    IN IF s.ball.speed = None
       THEN [s1 EXCEPT !.error = TRUE]
       ELSE GameObject_move(s1, s1.ball.item,
                            dx * s1.ball.speed, dy * s1.ball.speed)

\* Paddle.move without the check of the left wall
Paddle_move_no_left_check(s, offset) ==
    LET coords == get_position(s, PaddleItem)
        width == winfo_width
    IN IF coords[3] + Px(offset) <= width
       THEN LET s1 == GameObject_move(s, PaddleItem, offset, 0)
            IN IF s1.carried # None
               THEN GameObject_move(s1, s1.carried, offset, 0)
               ELSE s1
       ELSE s

\* Paddle.move
Paddle_move(s, offset) ==
    LET coords == get_position(s, PaddleItem)
        width == winfo_width
    IN IF coords[1] + Px(offset) >= 0 /\ coords[3] + Px(offset) <= width
       THEN LET s1 == GameObject_move(s, PaddleItem, offset, 0)
            IN IF s1.carried # None
               THEN GameObject_move(s1, s1.carried, offset, 0)
               ELSE s1
       ELSE s

-----------------------------------------------------------------------------
(* Game: the loop *)

\* a set of canvas ids as the list Tk returns (lowest item first)
RECURSIVE AsList(_)
AsList(S) ==
    IF S = {} THEN <<>>
    ELSE LET m == CHOOSE x \in S : \A y \in S : x <= y
         IN <<m>> \o AsList(S \ {m})

\* the list comprehension of Game.check_collisions (line 158)
collideables(s, found) == AsList({x \in found : x \in s.items})

\* Game.check_collisions
check_collisions(s) ==
    LET ball_coords == get_position(s, s.ball.item)
        found == find_overlapping(s, ball_coords)
    IN collide(s, collideables(s, found))

\* the win branch that goes on scheduling ticks
WinBranch_reschedules(s) ==
    tk_after(draw_text([s EXCEPT !.ball.speed = None], 300, 200, "You've won!"),
             TickDelay, "game_loop")

\* game_loop, lines 121-122
WinBranch(s) ==
    draw_text([s EXCEPT !.ball.speed = None], 300, 200, "You've won!")

\* the miss branch without self.ball.speed = None
MissBranch_no_freeze(s) ==
    LET s1 == [s EXCEPT !.lives = @ - 1]
    IN IF s1.lives < 0
       THEN draw_text(s1, 300, 200, "Game Over")
       ELSE tk_after(s1, ServeDelay, "setup_game")

\* the miss branch that also schedules the next tick
MissBranch_keeps_ticking(s) ==
    LET s1 == [s EXCEPT !.ball.speed = None, !.lives = @ - 1]
    IN IF s1.lives < 0
       THEN draw_text(s1, 300, 200, "Game Over")
       ELSE tk_after(tk_after(s1, ServeDelay, "setup_game"),
                     TickDelay, "game_loop")

\* the miss branch that ends the game when no life is left (<= 0)
MissBranch_ends_at_zero(s) ==
    LET s1 == [s EXCEPT !.ball.speed = None, !.lives = @ - 1]
    IN IF s1.lives <= 0
       THEN draw_text(s1, 300, 200, "Game Over")
       ELSE tk_after(s1, ServeDelay, "setup_game")

\* game_loop, lines 125-130
MissBranch(s) ==
    LET s1 == [s EXCEPT !.ball.speed = None, !.lives = @ - 1]
    IN IF s1.lives < 0
       THEN draw_text(s1, 300, 200, "Game Over")
       ELSE tk_after(s1, ServeDelay, "setup_game")

\* the move branch without the after(50, self.game_loop) of line 135
MoveBranch_no_reschedule(s) == update(s)

\* game_loop, lines 132-135; an exception in update ends the callback
MoveBranch(s) ==
    LET s1 == update(s)
    IN IF s1.error THEN s1 ELSE tk_after(s1, TickDelay, "game_loop")

\* game_loop that counts the bricks before it resolves the collisions
game_loop_counts_first(s) ==
    LET num_bricks == Cardinality(find_withtag(s, "brick"))
        s1 == check_collisions(s)
    IN IF num_bricks = 0 THEN WinBranch(s1)
       ELSE IF get_position(s1, s1.ball.item)[4] >= Px(GameHeight)
            THEN MissBranch(s1)
            ELSE MoveBranch(s1)

\* Game.game_loop
game_loop(s) ==
    LET s1 == check_collisions(s)
        num_bricks == Cardinality(find_withtag(s1, "brick"))
    IN IF num_bricks = 0 THEN WinBranch(s1)
       ELSE IF get_position(s1, s1.ball.item)[4] >= Px(GameHeight)
            THEN MissBranch(s1)
            ELSE MoveBranch(s1)

\* start_game that leaves '<space>' bound
start_game_keeps_binding(s) ==
    LET s2 == canvas_delete(s, s.text)
        s3 == [s2 EXCEPT !.carried = None]
    IN game_loop(s3)

\* start_game that leaves the ball attached to the paddle
start_game_keeps_ball(s) ==
    LET s1 == [s EXCEPT !.space = FALSE]
        s2 == canvas_delete(s1, s1.text)
    IN game_loop(s2)

\* Game.start_game
start_game(s) ==
    LET s1 == [s EXCEPT !.space = FALSE]
        s2 == canvas_delete(s1, s1.text)
        s3 == [s2 EXCEPT !.carried = None]
    IN game_loop(s3)

-----------------------------------------------------------------------------
(* Events: Tk runs one key handler or one timer callback at a time *)

Init ==
    /\ lives = Game_init.lives
    /\ hud = Game_init.hud
    /\ text = Game_init.text
    /\ space = Game_init.space
    /\ after = Game_init.after
    /\ canvas = Game_init.canvas
    /\ nextId = Game_init.nextId
    /\ items = Game_init.items
    /\ ball = Game_init.ball
    /\ carried = Game_init.carried
    /\ hits = Game_init.hits
    /\ error = Game_init.error
    /\ collided = <<>>

\* the collidable entities a tick run now would pass to Ball.collide
Colliding ==
    collideables(Cur, find_overlapping(Cur, get_position(Cur, ball.item)))

\* <Left>: self.paddle.move(-10)
KeyLeft ==
    /\ \E offset \in {-PaddleStep} : Becomes(Paddle_move(Cur, offset))
    /\ UNCHANGED collided

\* <Right>: self.paddle.move(10)
KeyRight ==
    /\ \E offset \in {PaddleStep} : Becomes(Paddle_move(Cur, offset))
    /\ UNCHANGED collided

\* <space>: start_game while bound, nothing once unbound
KeySpace ==
    IF space
    THEN Becomes(start_game(Cur)) /\ collided' = Colliding
    ELSE UNCHANGED vars

\* a timer set by after(50, self.game_loop) expires
TimerGameLoop ==
    /\ after.game_loop > 0
    /\ Becomes(game_loop([Cur EXCEPT !.after.game_loop = @ - 1]))
    /\ collided' = Colliding

\* the timer set by after(1000, self.setup_game) expires
TimerSetupGame ==
    /\ after.setup_game > 0
    /\ Becomes(setup_game([Cur EXCEPT !.after.setup_game = @ - 1]))
    /\ UNCHANGED collided

Next == KeyLeft \/ KeyRight \/ KeySpace \/ TimerGameLoop \/ TimerSetupGame

Spec == Init /\ [][Next]_vars

-----------------------------------------------------------------------------
(* What an observer sees of the state machine of the game *)

Shown(txt) == \E i \in DOMAIN canvas : canvas[i].type = "text" /\ canvas[i].text = txt

Won == Shown("You've won!")

GameOver == Shown("Game Over")

Ended == Won \/ GameOver

\* the prompt is on the canvas
AwaitingServe == Shown("Press Spacebar to start")

\* the ball is frozen and the game has not ended: the pause after a miss
LifeLost == ball.speed = None /\ ~Ended

Running == ~AwaitingServe /\ ball.speed # None

NoTimers == after = [game_loop |-> 0, setup_game |-> 0]

BallBox == get_position(Cur, ball.item)

PaddleBox == get_position(Cur, PaddleItem)

LiveBricks == find_withtag(Cur, "brick")

\* a step that runs game_loop: an expired tick timer, or the launch
TickStep == TimerGameLoop \/ (space /\ KeySpace)

-----------------------------------------------------------------------------
(* C1 *)

\* C1: a tick whose collision resolution leaves no brick enters Won on that
\* tick, whatever the position of the ball (its bottom edge is not looked at):
\* lives is not decremented, the ball is frozen and not moved, and no timer
\* is scheduled.  Nothing after the collision step changes the bricks, so
\* "no brick after collision resolution" is "no brick after the tick".
C1_WinBeforeMiss ==
    [][(TickStep /\ find_withtag(Cur, "brick")' = {}) =>
          /\ Won'
          /\ ~GameOver'
          /\ lives' = lives
          /\ BallBox' = BallBox
          /\ ball'.speed = None
          /\ NoTimers']_vars

\* the game has been won on the first life
C1_Witness == Won /\ lives = StartLives /\ LiveBricks = {}

(* C2 *)

\* C2: a tick that detects a miss (bricks remain, bottom edge of the ball at
\* or below the floor) freezes the ball and takes exactly one life; from 0 to
\* -1 it shows Game Over and schedules nothing, otherwise it schedules exactly
\* one re-serve and does not show Game Over.
C2_MissTakesOneLife ==
    [][(TickStep /\ find_withtag(Cur, "brick")' # {}
                 /\ BallBox[4] >= Px(GameHeight)) =>
          /\ ball'.speed = None
          /\ lives' = lives - 1
          /\ after'.game_loop = 0
          /\ IF lives' < 0
             THEN lives = 0 /\ GameOver' /\ after'.setup_game = 0
             ELSE ~GameOver' /\ after'.setup_game = 1]_vars

\* the fourth miss: game over with lives -1 and no re-serve pending
C2_Witness == GameOver /\ lives = -1 /\ ball.speed = None /\ NoTimers

(* C3 *)

\* C3: after every completed tick or handler the HUD shows the lives counter.
C3_HudShowsLives ==
    /\ hud \in DOMAIN canvas
    /\ canvas[hud].text = LivesText(lives)

(* C4 *)

\* C4: once Won or GameOver is entered no timer is pending and the launch key
\* is unbound, so no tick can run; and no later step leaves Won/GameOver,
\* schedules a timer or rebinds the launch key.
C4_EndIsTerminal ==
    /\ [](Ended => (NoTimers /\ ~space))
    /\ [][Ended => (Ended' /\ NoTimers' /\ ~space' /\ ~TickStep
                    /\ (Won' <=> Won) /\ (GameOver' <=> GameOver))]_vars

\* the game was won on the last life and the paddle was moved to the left
\* wall, away from where it was served
C4_Witness == Won /\ lives = 0 /\ PaddleBox[1] = Px(ColumnMargin)

(* C5 *)

\* C5: after Won or GameOver no input event changes the position of the
\* paddle, the ball or a brick, nor lives or the HUD.
C5_StaticAfterEnd ==
    [][Ended => (canvas' = canvas /\ lives' = lives)]_vars

(* C6 *)

\* C6: the launch key is bound exactly while the prompt is shown; a launch
\* then detaches the ball, removes the prompt and starts the one tick chain.
\* In every other state the key is unbound, so a launch event changes
\* nothing, and there is never more than one tick timer.
C6_LaunchOncePerServe ==
    /\ [](space <=> AwaitingServe)
    /\ [](AwaitingServe => (carried = ball.item /\ NoTimers))
    /\ [](after.game_loop <= 1)
    /\ [][(space /\ KeySpace) =>
              /\ ~space'
              /\ ~AwaitingServe'
              /\ carried' = None
              /\ Running'
              /\ after' = [game_loop |-> 1, setup_game |-> 0]]_vars

\* running on the second life: two launches have been honoured
C6_Witness ==
    Running /\ lives = StartLives - 1 /\ carried = None /\ after.game_loop = 1

(* C7 *)

PaddleShifted(box, offset) ==
    <<box[1] + Px(offset), box[2], box[3] + Px(offset), box[4]>>

\* C7: Paddle.move(offset) moves nothing when the moved box would leave
\* [0, width] and otherwise shifts the paddle horizontally by offset; the
\* paddle stays within [0, width] and on its line.
C7_PaddleInBounds ==
    /\ [](/\ PaddleBox[1] >= 0
          /\ PaddleBox[3] <= Px(GameWidth)
          /\ PaddleBox[3] - PaddleBox[1] = Px(PaddleWidth)
          /\ PaddleBox[2] = Px(PaddleYStart - IntDiv(PaddleHeight, 2))
          /\ PaddleBox[4] = Px(PaddleYStart + IntDiv(PaddleHeight, 2)))
    /\ [](\A offset \in {-PaddleStep, PaddleStep} :
            LET moved == get_position(Paddle_move(Cur, offset), PaddleItem)
            IN IF PaddleBox[1] + Px(offset) < 0
                  \/ PaddleBox[3] + Px(offset) > Px(GameWidth)
               THEN moved = PaddleBox
               ELSE moved = PaddleShifted(PaddleBox, offset))
    /\ [][PaddleBox' # PaddleBox =>
             \E offset \in {-PaddleStep, PaddleStep} :
                 PaddleBox' = PaddleShifted(PaddleBox, offset)]_vars

\* the paddle at left edge 5, where move(-10) is rejected, during play
C7_Witness == PaddleBox[1] = Px(5) /\ Running

(* C8 *)

\* C8: a step that moves the paddle moves the ball by the same offset exactly
\* when the prompt is shown (ball not yet launched) and leaves the ball alone
\* in every other state; a rejected move changes nothing; the paddle carries
\* the ball exactly while the prompt is shown, and the reference is cleared
\* only by a launch.
C8_BallRidesPaddle ==
    /\ [][PaddleBox' # PaddleBox =>
             /\ ball' = ball
             /\ IF AwaitingServe
                THEN BallBox' = PaddleShifted(BallBox, (PaddleBox'[1] - PaddleBox[1]) \div 2)
                ELSE BallBox' = BallBox]_vars
    /\ [](\A offset \in {-PaddleStep, PaddleStep} :
            LET s == Paddle_move(Cur, offset)
            IN get_position(s, PaddleItem) = PaddleBox => s = Cur)
    /\ [](carried # None <=> AwaitingServe)
    /\ [][(carried # None /\ carried' = None) => (space /\ KeySpace)]_vars

\* a re-served ball that has ridden the paddle to the left wall
C8_Witness ==
    /\ AwaitingServe
    /\ lives < StartLives
    /\ PaddleBox[1] = Px(5)
    /\ BallBox[1] + BallBox[3] = PaddleBox[1] + PaddleBox[3]

(* C9 *)

\* the collidable entities now in the world: the paddle and the live bricks
LiveCollidables == {i \in items : i \in DOMAIN canvas}

\* the direction the specification gives for a colliding set S
RefDirection(S) ==
    LET d == ball.direction
        flipped == <<d[1], -d[2]>>
    IN CASE Cardinality(S) >= 2 -> flipped
         [] Cardinality(S) = 0 -> d
         [] OTHER ->
              LET e == canvas[CHOOSE i \in S : TRUE].coords
              IN CASE BallBox[1] + BallBox[3] > 2 * e[3] -> <<1, d[2]>>
                   [] BallBox[1] + BallBox[3] < 2 * e[1] -> <<-1, d[2]>>
                   [] OTHER -> flipped

\* C9: for every set of collidable entities, wherever they and the ball are,
\* Ball.collide leaves the direction the reference gives: vertical flip for
\* two or more; for one, +1 / -1 horizontally when the centre of the ball is
\* strictly right / left of it and a vertical flip otherwise (edges
\* included); no change for none.
C9_CollideDirection ==
    \A S \in SUBSET LiveCollidables :
        collide(Cur, AsList(S)).ball.direction = RefDirection(S)

\* during play the ball overlaps exactly one entity, a brick, with its centre
\* strictly right of the brick's right edge: the tick resolves a side hit
C9_Witness ==
    /\ Running
    /\ after.game_loop = 1
    /\ LET objs == collideables(Cur, find_overlapping(Cur, BallBox))
       IN /\ Len(objs) = 1
          /\ IsBrick(Cur, objs[1])
          /\ BallBox[1] + BallBox[3] > 2 * canvas[objs[1]].coords[3]

(* C10 *)

\* C10: for every set of collidable entities Ball.collide takes exactly one
\* hit from each brick of the set and none from any other brick, whichever
\* direction branch it takes, and leaves the paddle in place; and the list
\* check_collisions passes to collide holds only the paddle and live bricks,
\* never a text item or the ball.
C10_CollideHits ==
    /\ \A S \in SUBSET LiveCollidables :
          LET s == collide(Cur, AsList(S))
          IN /\ DOMAIN s.hits = DOMAIN hits
             /\ \A b \in DOMAIN hits :
                   s.hits[b] = IF b \in S THEN hits[b] - 1 ELSE hits[b]
             /\ PaddleItem \in DOMAIN s.canvas
             /\ s.canvas[PaddleItem] = canvas[PaddleItem]
             /\ \A b \in LiveBricks \ S :
                   b \in DOMAIN s.canvas /\ s.canvas[b] = canvas[b]
    /\ LET objs == collideables(Cur, find_overlapping(Cur, BallBox))
       IN \A k \in 1..Len(objs) :
             /\ objs[k] \in LiveCollidables
             /\ objs[k] = PaddleItem \/ objs[k] \in LiveBricks
             /\ canvas[objs[k]].type = "rectangle"

\* during play the ball overlaps the lives text and a brick of the top row
\* that has already taken one of its two hits
C10_Witness ==
    /\ Running
    /\ after.game_loop = 1
    /\ hud \in find_overlapping(Cur, BallBox)
    /\ \E b \in find_overlapping(Cur, BallBox) \cap LiveBricks :
          hits[b] = 1 /\ canvas[b].fill = COLORS[1] /\ canvas[b].coords[2] = Px(40)

(* C11 *)

\* C11: a brick is in the world exactly while its hit counter is positive;
\* a live brick has a counter in {1, 2, 3}, no counter is ever negative, and
\* only a live brick is ever hit (a counter changes only by one hit, on a
\* brick that was in the world).
C11_RemovedAtZero ==
    /\ [](\A b \in DOMAIN hits :
             /\ hits[b] >= 0
             /\ (b \in LiveBricks <=> hits[b] \in {1, 2, 3})
             /\ (b \notin DOMAIN canvas <=> hits[b] = 0))
    /\ [][\A b \in DOMAIN hits :
             hits'[b] # hits[b] =>
                 (b \in LiveBricks /\ hits'[b] = hits[b] - 1)]_vars

\* the two-hit brick of the first column is gone and a one-hit brick is left
C11_Witness ==
    /\ 2 \in DOMAIN hits /\ hits[2] = 0 /\ 2 \notin DOMAIN canvas
    /\ \E b \in LiveBricks : hits[b] = 1

(* C12 *)

\* C12: Game.items holds exactly the live collidable entities: the paddle
\* and the bricks whose counter has not reached 0.
C12_ItemsAreLive == items = {PaddleItem} \cup LiveBricks

-----------------------------------------------------------------------------
(* Ball.update on its own: a constructed game whose ball is put anywhere on
   a grid of positions, with any direction, moving or frozen, and then
   updated until it reaches the floor or update raises *)

MaxStart == 4

\* the game as constructed, with the ball at left edge x and top edge y
\* (pixels), direction d and the given speed
WithBall(x, y, d, speed) ==
    [Game_init EXCEPT
        !.canvas[Game_init.ball.item].coords =
            <<Px(x), Px(y), Px(x + 2 * BallRadius), Px(y + 2 * BallRadius)>>,
        !.ball.direction = d,
        !.ball.speed = speed,
        !.carried = None]

InitUpdate ==
    \E i \in 0..MaxStart, j \in 0..MaxStart, dx \in {-1, 1}, dy \in {-1, 1},
       speed \in {None, BallSpeed} :
        LET s == WithBall(BallSpeed * i - ColumnMargin, BallSpeed * j,
                          <<dx, dy>>, speed)
        IN /\ lives = s.lives
           /\ hud = s.hud
           /\ text = s.text
           /\ space = s.space
           /\ after = s.after
           /\ canvas = s.canvas
           /\ nextId = s.nextId
           /\ items = s.items
           /\ ball = s.ball
           /\ carried = s.carried
           /\ hits = s.hits
           /\ error = s.error
           /\ collided = <<>>

\* self.ball.update(), as game_loop calls it: only above the floor
UpdateCall ==
    /\ ~error
    /\ BallBox[4] < Px(GameHeight)
    /\ Becomes(update(Cur))
    /\ UNCHANGED collided

SpecUpdate == InitUpdate /\ [][UpdateCall]_vars

(* C13 *)

\* C13: Ball.update with speed None is a no-op: it raises nothing and leaves
\* the position and the direction of the ball unchanged.
C13_UpdateFrozenIsNoOp ==
    [][(UpdateCall /\ ball.speed = None) =>
          (~error' /\ BallBox' = BallBox /\ ball' = ball)]_vars

(* C14 *)

\* C14: in every state of a game the ball is at most one tick's displacement
\* beyond a side wall or the ceiling: left edge >= -speed, right edge <=
\* width + speed, top edge >= -speed.
C14_BallNearField ==
    /\ BallBox[1] >= - Px(BallSpeed)
    /\ BallBox[3] <= Px(GameWidth) + Px(BallSpeed)
    /\ BallBox[2] >= - Px(BallSpeed)

\* during play the ball has crossed the left wall by less than one tick's
\* displacement and still heads left: the next update reflects it
C14_Witness ==
    /\ Running
    /\ BallBox[1] < 0
    /\ ball.direction[1] = -1

-----------------------------------------------------------------------------
(* Tk runs an expired timer's callback, whatever keys are pressed meanwhile:
   weak fairness of each timer action, written out by its definition,
   []<>(~ENABLED <<A>>_vars) \/ []<><<A>>_vars, with the timer's pending
   count for the enabling condition *)

TickFair ==
    []<>(after.game_loop = 0) \/ []<><<TimerGameLoop>>_vars

ServeFair ==
    []<>(after.setup_game = 0) \/ []<><<TimerSetupGame>>_vars

SpecLive == Spec /\ TickFair /\ ServeFair

(* C15 *)

\* the longest flight followed tick by tick
MaxFlight == 50

\* the first ball is in play, heading right and up
Launched ==
    /\ Running
    /\ lives = StartLives
    /\ ball.direction = <<1, -1>>
    /\ ball.speed = BallSpeed

\* the miss of the first ball has been registered and the re-serve scheduled
Missed ==
    /\ lives = StartLives - 1
    /\ ball.speed = None
    /\ BallBox[4] >= Px(GameHeight)
    /\ after = [game_loop |-> 0, setup_game |-> 1]
    /\ ~Ended

\* from s, with no key pressed, at most n ticks run, none of them reports a
\* colliding entity and the last one is the miss
RECURSIVE FreeFlight(_, _)
FreeFlight(s, n) ==
    IF n = 0 \/ s.after.game_loop = 0 THEN FALSE
    ELSE IF collideables(s, find_overlapping(s, get_position(s, s.ball.item)))
               # <<>>
         THEN FALSE
         ELSE LET t == game_loop([s EXCEPT !.after.game_loop = @ - 1])
              IN IF t.after.setup_game > 0
                 THEN t.lives = s.lives - 1
                 ELSE FreeFlight(t, n - 1)

\* C15: from a state with the first ball in play (heading right and up as
\* launched, or any other way) whose latest tick reported no colliding
\* entity, either a later tick reports one, or after finitely many ticks the
\* bottom edge of the ball is at or below the floor and that tick registers
\* the miss: lives 3 -> 2 and one re-serve scheduled.
C15_FreeBallIsMissed ==
    (Running /\ lives = StartLives /\ collided = <<>>)
        ~> (collided # <<>> \/ Missed)

\* the first ball heads right and up and nothing lies between it and the
\* floor: every tick from here to the miss reports no collision
C15_Witness ==
    /\ Launched
    /\ collided = <<>>
    /\ FreeFlight(Cur, MaxFlight)

-----------------------------------------------------------------------------
(* C16 *)

\* the hits a brick has taken so far: its counter at setup less its counter
HitsTaken(b) == Game_init.hits[b] - hits[b]

\* C16: a brick whose counter was h at setup is live exactly while it has
\* taken fewer than h hits, and it takes at most one hit per tick; Won is
\* shown exactly when no live brick is left, and the tick that removes the
\* last brick is the one that freezes the ball and shows Won.
C16_WonWhenCleared ==
    /\ [](/\ DOMAIN hits = DOMAIN Game_init.hits
          /\ \A b \in DOMAIN hits :
                 /\ HitsTaken(b) \in 0..Game_init.hits[b]
                 /\ (b \in LiveBricks <=> HitsTaken(b) < Game_init.hits[b])
          /\ (Won <=> LiveBricks = {}))
    /\ [][/\ \A b \in DOMAIN hits :
                 HitsTaken(b)' \in {HitsTaken(b), HitsTaken(b) + 1}
          /\ (LiveBricks # {} /\ LiveBricks' = {}) =>
                 (TickStep /\ Won' /\ ball'.speed = None /\ NoTimers')]_vars

\* the game is won: every brick, those set up with counter 2 included, has
\* taken exactly as many hits as its counter at setup
C16_Witness ==
    /\ Won
    /\ \E b \in DOMAIN hits : Game_init.hits[b] = 2
    /\ \A b \in DOMAIN hits : HitsTaken(b) = Game_init.hits[b]

-----------------------------------------------------------------------------
(* C17 *)

\* the balls in the world: the ovals on the canvas
Balls == {i \in DOMAIN canvas : canvas[i].type = "oval"}

\* the ball as a serve leaves it: heading right and up, moving, centred on
\* the paddle and attached to it
Served ==
    /\ ball.direction = <<1, -1>>
    /\ ball.speed # None
    /\ BallBox[1] + BallBox[3] = PaddleBox[1] + PaddleBox[3]
    /\ carried = ball.item

\* C17: in every state there is exactly one ball, the one the game refers
\* to, also while the frozen ball waits for the re-serve; a serve removes
\* the previous ball and creates a fresh one heading (1,-1) with non-null
\* speed, centred on the paddle where it is now and attached to it, and the
\* ball stays so until it is launched.
C17_OneBall ==
    /\ [](Balls = {ball.item} /\ (AwaitingServe => Served))
    /\ [][TimerSetupGame =>
            /\ ball.item \notin DOMAIN canvas'
            /\ ball'.item \notin DOMAIN canvas
            /\ PaddleBox' = PaddleBox
            /\ Served']_vars

\* the re-serve after a miss, with the paddle away from where it started:
\* the frozen ball has just been replaced by a fresh one on the paddle
C17_Witness ==
    /\ AwaitingServe
    /\ lives = StartLives - 1
    /\ ball.item # Game_init.ball.item
    /\ PaddleBox # get_position(Game_init, PaddleItem)
    /\ Served

-----------------------------------------------------------------------------
(* C18 *)

\* C18: no step creates a brick: the Brick objects are those of the setup,
\* the set of live bricks never gains a member and no hit-counter ever
\* rises.  A re-serve deletes the old ball and creates the new ball and the
\* prompt, and nothing else appears on or leaves the canvas (the lives text
\* is rewritten in place); the live bricks, every hit-counter, the paddle
\* position and lives are as before.
C18_BricksNeverRecreated ==
    /\ [](DOMAIN hits = DOMAIN Game_init.hits)
    /\ [][/\ LiveBricks' \subseteq LiveBricks
          /\ \A b \in DOMAIN hits : hits'[b] <= hits[b]]_vars
    /\ [][TimerSetupGame =>
            /\ DOMAIN canvas \ DOMAIN canvas' = {ball.item}
            /\ DOMAIN canvas' \ DOMAIN canvas = {ball'.item, text'}
            /\ \A i \in (DOMAIN canvas \cap DOMAIN canvas') \ {hud} :
                   canvas'[i] = canvas[i]
            /\ LiveBricks' = LiveBricks
            /\ hits' = hits
            /\ PaddleBox' = PaddleBox
            /\ lives' = lives]_vars

\* a re-serve has happened after a brick was hit and another removed and
\* the paddle was moved: the bricks, the counters and the paddle are as the
\* miss left them
C18_Witness ==
    /\ AwaitingServe
    /\ lives < StartLives
    /\ \E b \in LiveBricks : hits[b] < Game_init.hits[b]
    /\ \E b \in DOMAIN hits : b \notin LiveBricks
    /\ PaddleBox # get_position(Game_init, PaddleItem)

-----------------------------------------------------------------------------
(* C19 *)

\* C19: whatever keys and timers have interleaved, at most one deferred
\* callback is pending: exactly one next tick while the game is running,
\* exactly one re-serve during the pause after a miss, none while the serve
\* prompt is shown or after the game has been won or lost; a next tick and
\* a re-serve are never pending together.
C19_OneCallbackPending ==
    /\ after.game_loop + after.setup_game <= 1
    /\ Running => after = [game_loop |-> 1, setup_game |-> 0]
    /\ LifeLost => after = [game_loop |-> 0, setup_game |-> 1]
    /\ (AwaitingServe \/ Won \/ GameOver) => NoTimers

\* the pause after a miss, entered with the paddle moved by key events
\* between the ticks: the re-serve is the only callback pending
C19_Witness ==
    /\ LifeLost
    /\ after.setup_game = 1
    /\ PaddleBox # get_position(Game_init, PaddleItem)

-----------------------------------------------------------------------------
(* C20 *)

\* C20: the speed of the ball is null exactly while a re-serve is pending
\* after a miss or the game has been won or lost; then no tick is pending
\* and <space> is unbound, so no tick runs; every step that runs game_loop,
\* and with it Ball.update, starts with a non-null speed, and no callback
\* has raised an exception.
C20_UpdateNeverFrozen ==
    /\ [](/\ ball.speed = None <=> (after.setup_game > 0 \/ Won \/ GameOver)
          /\ ball.speed = None => (after.game_loop = 0 /\ ~space)
          /\ ~error)
    /\ [][TickStep => ball.speed # None]_vars

\* the last life has been lost after the earlier misses and re-serves: the
\* ball is frozen, nothing is pending and nothing has raised
C20_Witness ==
    /\ GameOver
    /\ ball.speed = None
    /\ ball.item # Game_init.ball.item
    /\ NoTimers
    /\ ~error

=============================================================================
